---------------------------- MODULE Spec2Model ----------------------------
(***************************************************************************)
(* A model of the kyber package (src/kyber): the NTT engine, the CBD       *)
(* sampler, the ciphertext codec, the CPA PKE and the KEM built on it.     *)
(* Python lists of coefficients are functions over 0..len-1 (the source's  *)
(* indices); byte strings are sequences of numbers in 0..255, read with    *)
(* Byte and Slice, which take the source's 0-based offsets.                *)
(***************************************************************************)
EXTENDS Integers, Sequences, FiniteSets, TLC

\* ------------------------------------------------------------------------
\* Parameters (kyber/params.py)

Q == 3329

N == 256

KYBER512 == [k |-> 2, n |-> N, q |-> Q, eta1 |-> 3, eta2 |-> 2, du |-> 10, dv |-> 4]

KYBER768 == [k |-> 3, n |-> N, q |-> Q, eta1 |-> 2, eta2 |-> 2, du |-> 10, dv |-> 4]

KYBER1024 == [k |-> 4, n |-> N, q |-> Q, eta1 |-> 2, eta2 |-> 2, du |-> 11, dv |-> 5]

\* ------------------------------------------------------------------------
\* Python values

\* len(l) of a list modelled as a function over 0..len-1
LenL(l) == Cardinality(DOMAIN l)

\* 1 << e
RECURSIVE Pow2(_)
Pow2(e) == IF e = 0 THEN 1 ELSE 2 * Pow2(e - 1)

\* (x >> j) & 1
Bit(x, j) == (x \div Pow2(j)) % 2

\* b[i] of a bytes object, i >= 0
Byte(b, i) == b[i + 1]

\* b[lo:hi] of a bytes object, 0 <= lo <= hi: the slice is cut at len(b)
Slice(b, lo, hi) ==
    LET top == IF hi < Len(b) THEN hi ELSE Len(b)
    IN  IF lo >= top THEN <<>> ELSE SubSeq(b, lo + 1, top)

\* ------------------------------------------------------------------------
\* NTT engine (kyber/ntt.py)

ZETAS == <<
    2285, 2571, 2970, 1812, 1493, 1422, 287, 202, 3158, 622, 1577, 182, 962,
    2127, 1855, 1468, 573, 2004, 264, 383, 2500, 1458, 1727, 3199, 2648,
    1017, 732, 608, 1787, 411, 3124, 1758, 1223, 652, 2777, 1015, 2036,
    1491, 3047, 1785, 516, 3321, 3009, 2663, 1711, 2167, 126, 1469, 2476,
    3239, 3058, 830, 107, 1908, 3082, 2378, 2931, 961, 1821, 2604, 448,
    2264, 677, 2054, 2226, 430, 555, 843, 2078, 871, 1550, 105, 422, 587,
    177, 3094, 3038, 2869, 1574, 1653, 3083, 778, 1159, 3182, 2552, 1483,
    2727, 1119, 1739, 644, 2457, 349, 418, 329, 3173, 3254, 817, 1097, 603,
    610, 1322, 2044, 1864, 384, 2114, 3193, 1218, 1994, 2455, 220, 2142,
    1670, 2144, 1799, 2051, 794, 1819, 2475, 2459, 478, 3221, 3021, 996,
    991, 958, 1869, 1522, 1628 >>

\* ZETAS[k] as Python evaluates it: a list index in 0..len-1 reads the entry,
\* one in -len..-1 wraps around to the entry len+k, any other raises
\* IndexError.
ZetaRaises(k) == k >= Len(ZETAS) \/ k < -Len(ZETAS)

ZetaAt(k) == IF k >= 0 THEN ZETAS[k + 1] ELSE ZETAS[Len(ZETAS) + k + 1]

\* The body of ntt's `for start` loop for one subrange (lines 35-38): the
\* pairs (j, j + distance), j in start..start+distance-1, are disjoint, so
\* the loop over j is one simultaneous update.
NttButterfly(res, start, distance, zeta, q) ==
    [i \in DOMAIN res |->
        IF i >= start /\ i < start + distance
        THEN (res[i] + ((zeta * res[i + distance]) % q)) % q
        ELSE IF i >= start + distance /\ i < start + 2 * distance
        THEN (res[i - distance] - ((zeta * res[i]) % q)) % q
        ELSE res[i]]

\* The body of invntt's `for start` loop for one subrange (lines 51-54).
InvnttButterfly(res, start, distance, zeta, q) ==
    [i \in DOMAIN res |->
        IF i >= start /\ i < start + distance
        THEN (res[i] + res[i + distance]) % q
        ELSE IF i >= start + distance /\ i < start + 2 * distance
        THEN ((res[i - distance] - res[i]) * zeta) % q
        ELSE res[i]]

\* invntt's final scaling (lines 57-58)
InvnttScale(res, q) == [i \in DOMAIN res |-> (res[i] * 1441) % q]

\* ------------------------------------------------------------------------
\* Symmetric primitives (kyber/symmetric.py)

\* SHAKE-128 is hashlib's and is not modelled bit by bit: ShakeAbsorb and
\* ShakeSqueeze stand for it as some fixed deterministic function of the
\* message whose output of length L is a prefix of its longer outputs, which
\* is all that the wrappers below rely on.
RECURSIVE ShakeAbsorbRange(_, _, _)
ShakeAbsorbRange(msg, lo, hi) ==
    IF lo > hi THEN 0
    ELSE IF lo = hi THEN (lo * (msg[lo] + 1)) % 65521
    ELSE LET mid == (lo + hi) \div 2
         IN  (ShakeAbsorbRange(msg, lo, mid)
              + ShakeAbsorbRange(msg, mid + 1, hi)) % 65521

ShakeAbsorb(msg) == (ShakeAbsorbRange(msg, 1, Len(msg)) + 31 * Len(msg) + 1) % 65521

ShakeSqueeze(state, j) == ((((state + 1) * j) \div 7) + 13 * j + state) % 256

\* shake_128(msg).digest(length)
Shake128(msg, length) ==
    LET state == ShakeAbsorb(msg)
    IN  [j \in 1..length |-> ShakeSqueeze(state, j)]

\* hash_g(msg), lines 6-11
hash_g(msg) == Shake128(msg, 64)

\* hash_h(msg), lines 14-19
hash_h(msg) == Shake128(msg, 32)

\* kdf(msg), lines 22-27
kdf(msg) == Shake128(msg, 32)

\* prf(seed, length), lines 30-35
prf(seed, length) == Shake128(seed, length)

\* ------------------------------------------------------------------------
\* CBD sampler (kyber/symmetric.py)

\* The byte offsets that line 66 reads for coefficient i: 4*i + j//8
CbdIndexA(i, j) == 4 * i + (j \div 8)

\* The byte offsets that line 67 reads for coefficient i: 4*i + j//8 + eta//2
CbdIndexB(i, j, eta) == 4 * i + (j \div 8) + (eta \div 2)

\* Whether computing coefficient i raises IndexError (a read past the buffer)
CbdRaises(buf, i, eta) ==
    \E j \in 0..(eta - 1) :
        CbdIndexA(i, j) >= Len(buf) \/ CbdIndexB(i, j, eta) >= Len(buf)

\* sum((buf[4*i + j//8] >> (j % 8)) & 1 for j in range(eta)), line 66
RECURSIVE CbdSumA(_, _, _)
CbdSumA(buf, i, j) ==
    IF j = 0 THEN 0
    ELSE CbdSumA(buf, i, j - 1)
         + Bit(Byte(buf, CbdIndexA(i, j - 1)), (j - 1) % 8)

\* sum((buf[4*i + j//8 + eta//2] >> (j % 8)) & 1 for j in range(eta)), line 67
RECURSIVE CbdSumB(_, _, _, _)
CbdSumB(buf, i, j, eta) ==
    IF j = 0 THEN 0
    ELSE CbdSumB(buf, i, j - 1, eta)
         + Bit(Byte(buf, CbdIndexB(i, j - 1, eta)), (j - 1) % 8)

\* a - b, line 68
CbdCoefficient(buf, i, eta) == CbdSumA(buf, i, eta) - CbdSumB(buf, i, eta, eta)

\* ------------------------------------------------------------------------
\* Ring elements (kyber/poly.py)

Max(a, b) == IF a > b THEN a ELSE b

Min(a, b) == IF a < b THEN a ELSE b

\* Polynomial.__add__, lines 13-21 (zip stops at the shorter list)
PolyAdd(a, b, q) ==
    [i \in 0..(Min(LenL(a), LenL(b)) - 1) |-> (a[i] + b[i]) % q]

\* Polynomial.__sub__, lines 23-31
PolySub(a, b, q) ==
    [i \in 0..(Min(LenL(a), LenL(b)) - 1) |-> (a[i] - b[i]) % q]

\* The sum that lines 40-42 leave in res[t], over the pairs (i, t - i) with
\* lo <= i <= hi. Each product is reduced on its own and the partial sums as
\* they are joined: the residue modulo q is that of the running reduction
\* of line 42, with no intermediate value beyond 32 bits.
RECURSIVE MulAccumulate(_, _, _, _, _, _)
MulAccumulate(a, b, t, lo, hi, q) ==
    IF lo > hi THEN 0
    ELSE IF lo = hi THEN ((a[lo] % q) * (b[t - lo] % q)) % q
    ELSE LET mid == (lo + hi) \div 2
         IN  (MulAccumulate(a, b, t, lo, mid, q)
              + MulAccumulate(a, b, t, mid + 1, hi, q)) % q

\* Polynomial.__mul__, lines 33-48: the schoolbook products in res[0..2n-1],
\* then the terms of degree i >= n subtracted at degree i - n
PolyMul(a, b, n, q) ==
    LET res == [t \in 0..(2 * n - 1) |->
                    MulAccumulate(a, b, t, Max(0, t - n + 1), Min(n - 1, t), q)]
    IN  [i \in 0..(n - 1) |-> (res[i] - res[i + n]) % q]

\* Polynomial([0] * n)
PolyZero(n) == [i \in 0..(n - 1) |-> 0]

\* ------------------------------------------------------------------------
\* Serialization (kyber/pke.py)

\* int.from_bytes(b, 'little') of at most three bytes
FromBytes(b) ==
    (IF Len(b) > 0 THEN b[1] ELSE 0)
    + (IF Len(b) > 1 THEN 256 * b[2] ELSE 0)
    + (IF Len(b) > 2 THEN 65536 * b[3] ELSE 0)

\* int.from_bytes(b, 'little', signed=True) of at most two bytes
FromBytesSigned(b) ==
    LET u == FromBytes(b)
        top == IF Len(b) = 1 THEN 256 ELSE 65536
    IN  IF Len(b) > 0 /\ 2 * u >= top THEN u - top ELSE u

\* x.to_bytes(3, 'little'), 0 <= x < 2^24
ToBytes3(x) == <<x % 256, (x \div 256) % 256, (x \div 65536) % 256>>

\* x.to_bytes(2, 'little', signed=True), -2^15 <= x < 2^15
ToBytes2Signed(x) == LET u == x % 65536 IN <<u % 256, u \div 256>>

\* generate_matrix_A, lines 98-112: A[i][j] from prf(rho + bytes([i, j]), 3n)
generate_matrix_A(rho, params) ==
    [i \in 0..(params.k - 1) |->
        [j \in 0..(params.k - 1) |->
            LET stream == prf(rho \o <<i, j>>, params.n * 3)
            IN  [c \in 0..(params.n - 1) |->
                    FromBytes(Slice(stream, 3 * c, 3 * c + 3)) % params.q]]]

\* sum(1 if byte < 128 else -1) over the bytes draws[from..from+eta-1]
\* (1-based), lines 120 and 132
RECURSIVE SignSum(_, _, _)
SignSum(draws, from, eta) ==
    IF eta = 0 THEN 0
    ELSE (IF draws[from + eta - 1] < 128 THEN 1 ELSE -1)
         + SignSum(draws, from, eta - 1)

\* sample_noise_poly, lines 115-122, given the eta*n bytes that its
\* os.urandom(1) calls return, in order
sample_noise_poly(eta, n, draws) ==
    [i \in 0..(n - 1) |-> SignSum(draws, i * eta + 1, eta)]

\* sample_poly_from_seed, lines 125-134
sample_poly_from_seed(seed, eta, n) ==
    LET stream == prf(seed, n * eta)
    IN  [i \in 0..(n - 1) |-> SignSum(stream, i * eta + 1, eta)]

\* encode_pk, lines 139-146
RECURSIVE EncodeCoeffs3(_, _, _)
EncodeCoeffs3(coeffs, lo, hi) ==
    IF lo > hi THEN <<>>
    ELSE IF lo = hi THEN ToBytes3(coeffs[lo])
    ELSE LET mid == (lo + hi) \div 2
         IN  EncodeCoeffs3(coeffs, lo, mid) \o EncodeCoeffs3(coeffs, mid + 1, hi)

RECURSIVE EncodePolys3(_, _)
EncodePolys3(t, i) ==
    IF i = LenL(t) THEN <<>>
    ELSE EncodeCoeffs3(t[i], 0, LenL(t[i]) - 1) \o EncodePolys3(t, i + 1)

encode_pk(t, rho, params) == EncodePolys3(t, 0) \o rho

\* decode_pk, lines 149-161: the slices past the end of pk are empty
decode_pk(pk, params) ==
    [t |-> [i \in 0..(params.k - 1) |->
                [c \in 0..(params.n - 1) |->
                    LET pos == 3 * (i * params.n + c)
                    IN  FromBytes(Slice(pk, pos, pos + 3))]],
     rho |-> LET pos == 3 * params.k * params.n
             IN  Slice(pk, pos, pos + 32)]

\* encode_sk, lines 164-170
RECURSIVE EncodeCoeffs2(_, _, _)
EncodeCoeffs2(coeffs, lo, hi) ==
    IF lo > hi THEN <<>>
    ELSE IF lo = hi THEN ToBytes2Signed(coeffs[lo])
    ELSE LET mid == (lo + hi) \div 2
         IN  EncodeCoeffs2(coeffs, lo, mid) \o EncodeCoeffs2(coeffs, mid + 1, hi)

RECURSIVE EncodePolys2(_, _)
EncodePolys2(s, i) ==
    IF i = LenL(s) THEN <<>>
    ELSE EncodeCoeffs2(s[i], 0, LenL(s[i]) - 1) \o EncodePolys2(s, i + 1)

encode_sk(s, params) == EncodePolys2(s, 0)

\* decode_sk, lines 173-184
decode_sk(sk, params) ==
    [i \in 0..(params.k - 1) |->
        [c \in 0..(params.n - 1) |->
            LET pos == 2 * (i * params.n + c)
            IN  FromBytesSigned(Slice(sk, pos, pos + 2))]]

\* decode_message, lines 246-252: bit i of each byte, eight per byte, cut at n
decode_message(msg, n) ==
    [i \in 0..(Min(8 * Len(msg), n) - 1) |-> Bit(Byte(msg, i \div 8), i % 8)]

\* encode_message, lines 255-265: a bit is 1 iff the coefficient is > 0
MessageByte(coeffs, n, i) ==
    LET bit(j) == IF i + j < Min(LenL(coeffs), n) /\ coeffs[i + j] > 0
                  THEN Pow2(j) ELSE 0
    IN  bit(0) + bit(1) + bit(2) + bit(3) + bit(4) + bit(5) + bit(6) + bit(7)

encode_message(coeffs, n) ==
    [b \in 1..((Min(LenL(coeffs), n) + 7) \div 8) |->
        MessageByte(coeffs, n, 8 * (b - 1))]

\* ------------------------------------------------------------------------
\* Ciphertext codec (kyber/pke.py)

\* A compression that truncates where lines 195 and 203 round: without the
\* term q // 2 the error bound of compression does not hold
CompressCoeffTruncating(coeff, d, q) == (coeff * Pow2(d)) \div q

\* ((coeff << d) + q // 2) // q, lines 195 and 203
CompressCoeff(coeff, d, q) == ((coeff * Pow2(d)) + (q \div 2)) \div q

\* The bytes appended for one coefficient, lines 196-198 and 204-206
PackCoeff(compressed, d) ==
    IF d > 8 THEN <<compressed % 256, (compressed \div 256) % 256>>
    ELSE <<compressed % 256>>

\* The bytes of c that lines 220-225 and 233-238 read at pos
UnpackWidth(d) == IF d <= 8 THEN 1 ELSE 2

\* c[pos], or c[pos] | (c[pos + 1] << 8)
UnpackCoeff(c, pos, d) ==
    IF d <= 8 THEN Byte(c, pos) ELSE Byte(c, pos) + 256 * Byte(c, pos + 1)

\* ((compressed * q) + (1 << (d - 1))) >> d, lines 226 and 239
DecompressCoeff(compressed, d, q) ==
    ((compressed * q) + Pow2(d - 1)) \div Pow2(d)

\* The bytes of the coefficients lo..hi of one polynomial
RECURSIVE CompressCoeffs(_, _, _, _, _)
CompressCoeffs(coeffs, lo, hi, d, q) ==
    IF lo > hi THEN <<>>
    ELSE IF lo = hi THEN PackCoeff(CompressCoeff(coeffs[lo], d, q), d)
    ELSE LET mid == (lo + hi) \div 2
         IN  CompressCoeffs(coeffs, lo, mid, d, q)
             \o CompressCoeffs(coeffs, mid + 1, hi, d, q)

RECURSIVE CompressPolys(_, _, _, _)
CompressPolys(u, i, d, q) ==
    IF i = LenL(u) THEN <<>>
    ELSE CompressCoeffs(u[i], 0, LenL(u[i]) - 1, d, q)
         \o CompressPolys(u, i + 1, d, q)

\* compress_ciphertext, lines 187-208
compress_ciphertext(u, v, params) ==
    CompressPolys(u, 0, params.du, params.q)
    \o CompressCoeffs(v, 0, LenL(v) - 1, params.dv, params.q)

\* The number of bytes of c that decompress_ciphertext reads; a shorter c
\* makes c[pos] raise IndexError (lines 221-224, 234-237)
CiphertextBytesRead(params) ==
    params.k * params.n * UnpackWidth(params.du)
    + params.n * UnpackWidth(params.dv)

\* decompress_ciphertext, lines 211-243, for a c it does not raise on
decompress_ciphertext(c, params) ==
    [u |-> [i \in 0..(params.k - 1) |->
                [j \in 0..(params.n - 1) |->
                    DecompressCoeff(
                        UnpackCoeff(c, UnpackWidth(params.du) * (i * params.n + j),
                                    params.du),
                        params.du, params.q)]],
     v |-> [j \in 0..(params.n - 1) |->
                DecompressCoeff(
                    UnpackCoeff(c, params.k * params.n * UnpackWidth(params.du)
                                   + UnpackWidth(params.dv) * j,
                                params.dv),
                    params.dv, params.q)]]

\* ------------------------------------------------------------------------
\* CPA PKE (kyber/pke.py): the arithmetic of keygen, encrypt and decrypt

\* keygen lines 27-31 for row i, before ntt: the sum over j < upto of
\* A[i][j] * s[j], then + e[i]
RECURSIVE KeygenRowSum(_, _, _, _)
KeygenRowSum(A, s, i, upto) ==
    IF upto = 0 THEN PolyZero(N)
    ELSE PolyAdd(KeygenRowSum(A, s, i, upto - 1),
                 PolyMul(A[i][upto - 1], s[upto - 1], N, Q), Q)

KeygenRow(A, s, e, i, params) == PolyAdd(KeygenRowSum(A, s, i, params.k), e[i], Q)

\* encrypt lines 59-63 for row i: the sum over j < upto of A[j][i] * r_poly,
\* then + e1[i]
RECURSIVE EncryptRowSum(_, _, _, _)
EncryptRowSum(A, r_poly, i, upto) ==
    IF upto = 0 THEN PolyZero(N)
    ELSE PolyAdd(EncryptRowSum(A, r_poly, i, upto - 1),
                 PolyMul(A[upto - 1][i], r_poly, N, Q), Q)

EncryptRow(A, r_poly, e1, i, params) ==
    PolyAdd(EncryptRowSum(A, r_poly, i, params.k), e1[i], Q)

\* encrypt lines 66-70: v = sum of t[i] * r_poly, then + (e2 + m_poly)
RECURSIVE EncryptVSum(_, _, _)
EncryptVSum(t, r_poly, upto) ==
    IF upto = 0 THEN PolyZero(N)
    ELSE PolyAdd(EncryptVSum(t, r_poly, upto - 1),
                 PolyMul(t[upto - 1], r_poly, N, Q), Q)

EncryptV(t, r_poly, e2, m, params) ==
    PolyAdd(EncryptVSum(t, r_poly, params.k),
            PolyAdd(e2, decode_message(m, params.n), Q), Q)

\* decrypt lines 88-90: m_poly = v - s[0]*u[0] - ... - s[upto-1]*u[upto-1]
RECURSIVE DecryptPoly(_, _, _, _)
DecryptPoly(s, u, v, upto) ==
    IF upto = 0 THEN v
    ELSE PolySub(DecryptPoly(s, u, v, upto - 1),
                 PolyMul(s[upto - 1], u[upto - 1], N, Q), Q)

\* ------------------------------------------------------------------------
\* CCA KEM (kyber/kem.py): the secret key's layout

\* keypair lines 24-25: sk = sk' || pk' || H(pk') || z
AssembleSk(sk_pke, pk_pke, z) == sk_pke \o pk_pke \o hash_h(pk_pke) \o z

\* decapsulate lines 58-62: the four slices of sk
ParseSk(sk, params) ==
    LET sk_len == params.k * 32
    IN  [sk_pke |-> Slice(sk, 0, sk_len),
         pk_pke |-> Slice(sk, sk_len, sk_len * 2),
         h |-> Slice(sk, sk_len * 2, sk_len * 2 + 32),
         z |-> Slice(sk, sk_len * 2 + 32, Len(sk))]

\* os.urandom: the bytes at positions from..from+len-1 of the stream that
\* the operating system hands out, one of a few streams; stream 0 is all
\* zero bytes, stream 1 is 1, 2, 3, ...
urandom(seed, from, len) == [i \in 1..len |-> (seed * (from + i)) % 256]

\* ------------------------------------------------------------------------
\* Bounds of the inputs

MaxPolySeed == 2

MaxBufSeed == 2

\* The polynomials handed to ntt / invntt: seed 0 is test_ntt's 1 + x + x^2,
\* the others have all 256 coefficients in [0, q).
InputPoly(seed) ==
    [i \in 0..(N - 1) |->
        IF seed = 0 THEN (IF i < 3 THEN 1 ELSE 0)
        ELSE (seed * i * i + 7 * i + seed) % Q]

\* The buffers handed to cbd: len bytes, all zero for seed 0
InputBuf(seed, len) == [i \in 1..len |-> (seed * (i * i + 3 * i + 1)) % 256]

\* The compression widths of the parameter sets (du, dv) and of the message
CompressionWidths == {1, 4, 5, 10, 11}

\* The streams os.urandom may hand out for the 32-byte draws (rho, z, m) are
\* 0..MaxSecretSeed, for the one-byte draws of sample_noise_poly
\* 0..MaxNoiseSeed
MaxSecretSeed == 0

MaxNoiseSeed == 1

\* The streams os.urandom may hand out for keypair's z, when the key's layout
\* is looked at on its own, are 0..MaxKeySeed
MaxKeySeed == 1

\* A small ring next to the one of the parameter sets: Polynomial(coeffs,
\* n = SmallN, q = SmallQ) with every coefficient in -1..MaxSmallCoeff
SmallN == 2

SmallQ == 5

MaxSmallCoeff == 2

\* The sizes of section 6 of the specification: pk, sk (KEM) and ciphertext
SpecPkLen(p) == ((12 * p.k * p.n) \div 8) + 32

SpecSkLen(p) == ((12 * p.k * p.n) \div 8) + SpecPkLen(p) + 64

SpecCtLen(p) == ((p.du * p.k + p.dv) * p.n) \div 8

\* A vector of k polynomials with coefficients in [0, q)
InputVector(p) == [i \in 0..(p.k - 1) |-> InputPoly(i + 1)]

\* Public keys handed to encapsulate: an encode_pk output, and a string one
\* byte short of the specification's size
InputPks(p) ==
    {encode_pk(InputVector(p), InputBuf(1, 32), p), InputBuf(1, SpecPkLen(p) - 1)}

\* Ciphertexts handed to decapsulate: of the specification's size, of the
\* size decompress_ciphertext reads, and one byte short of that
InputCts(p) ==
    {InputBuf(1, SpecCtLen(p)), InputBuf(1, CiphertextBytesRead(p)),
     InputBuf(1, CiphertextBytesRead(p) - 1)}

\* Secret keys handed to decapsulate: of the specification's size, and one
\* byte short of it
InputSks(p) == {InputBuf(1, SpecSkLen(p)), InputBuf(1, SpecSkLen(p) - 1)}

\* A key pair laid out as decapsulate parses it (sk', pk' of 32k bytes each,
\* then H(pk') and z), all of whose key bytes are zero
InputKeys(p) ==
    LET pk == InputBuf(0, 32 * p.k)
    IN  {[pk |-> pk, sk |-> AssembleSk(InputBuf(0, 32 * p.k), pk, InputBuf(1, 32))]}

\* The parameter sets of the KyberKEM objects
ParamSets == {KYBER512, KYBER768, KYBER1024}

\* The programs run on a KyberKEM object: the test and a lone decapsulate on
\* every parameter set, the programs that start with encapsulate on the
\* default one (KyberKEM.__init__, params = KYBER512)
ProgramsOf(p) ==
    IF p = KYBER512
    THEN {"test_encryption", "encapsulate", "decapsulate", "roundtrip"}
    ELSE {"test_encryption", "decapsulate"}

\* ------------------------------------------------------------------------
\* State

VARIABLES
    nttCall,    \* "test_ntt": ntt(poly) then invntt of its result; "invntt": invntt(poly)
    nttPc,      \* "ntt" | "invntt" | "done" | "raised"
    poly,       \* the argument of the call
    res,        \* ntt's / invntt's local list res
    level,      \* the `for level` loop variable
    start,      \* the `for start` loop variable
    k,          \* the twiddle index of the next read of ZETAS
    cbdPc,      \* "entry" | "loop" | "done" | "IndexError" | "ValueError"
    eta,        \* cbd's argument eta
    buf,        \* cbd's argument buf
    cbdI,       \* cbd's loop variable i
    coefficients,   \* cbd's local list coefficients
    codecPc,    \* "coeff" | "packed" | "unpacked"
    codecD,     \* the width d (params.du or params.dv)
    coeff,      \* the coefficient compressed
    packed,     \* the bytes compress_ciphertext appends for it
    decompressed,   \* the coefficient decompress_ciphertext reads back
    params,     \* self.params of the KyberKEM object
    prog,       \* the calling program: "test_encryption" (tests/test_basic.py),
                \* "encapsulate" (twice, one pk), "decapsulate", "roundtrip"
                \* (encapsulate, then decapsulate twice)
    input,      \* the program's inputs [pk, c, sk]
    arg,        \* the call in progress [op, pk, c, sk]; op = "none" at the end
    kemPc,      \* the place in the call
    local,      \* the local variables of the call and of the functions it is in
    urandomRead,    \* bytes read from os.urandom since the call began
    work,       \* the hashing, encryption and decryption steps begun in the call
    results,    \* the finished calls, in order
    skPc,       \* "parts" | "built" | "parsed"
    skParts,    \* [sk_pke, pk_pke, h, z]: what keypair puts into sk
    skBytes,    \* sk
    skParsed,   \* [sk_pke, pk_pke, h, z]: what decapsulate slices out of sk
    decPc,      \* decompress_ciphertext: "u" | "v" | "returned" | "IndexError"
    decC,       \* its argument c
    decI,       \* the polynomials of u decoded so far
    decU,       \* its local list u
    decV,       \* its local v
    mulPc,      \* Polynomial.__mul__: "loop" | "reduce" | "done"
    mulA,       \* the program's a
    mulB,       \* the program's b
    mulCall,    \* 1 during a * b, 2 during b * a
    mulI,       \* the `for i` loop variable of lines 40-42
    mulRes,     \* __mul__'s local list res
    mulAB,      \* the coefficients of a * b
    mulBA       \* the coefficients of b * a

nttVars == <<nttCall, nttPc, poly, res, level, start, k>>

cbdVars == <<cbdPc, eta, buf, cbdI, coefficients>>

codecVars == <<codecPc, codecD, coeff, packed, decompressed>>

kemVars == <<params, prog, input, arg, kemPc, local, urandomRead, work, results>>

skVars == <<skPc, skParts, skBytes, skParsed>>

decVars == <<decPc, decC, decI, decU, decV>>

mulVars == <<mulPc, mulA, mulB, mulCall, mulI, mulRes, mulAB, mulBA>>

vars == <<nttVars, cbdVars, codecVars, kemVars, skVars, decVars, mulVars>>

NoCall == [op |-> "none", pk |-> <<>>, c |-> <<>>, sk |-> <<>>]

NoLocals ==
    [rho |-> <<>>, A |-> <<>>, s |-> <<>>, e |-> <<>>, t |-> <<>>, i |-> 0,
     enc_pk |-> <<>>, enc_m |-> <<>>, enc_r |-> <<>>,
     r_poly |-> <<>>, e1 |-> <<>>, e2 |-> <<>>, u |-> <<>>, v |-> <<>>,
     m |-> <<>>, h_pk |-> <<>>, K |-> <<>>, r |-> <<>>, c |-> <<>>,
     sk_pke |-> <<>>, pk_pke |-> <<>>, h |-> <<>>, z |-> <<>>,
     m_prime |-> <<>>, K_prime |-> <<>>, r_prime |-> <<>>, c_prime |-> <<>>]

NoParts == [sk_pke |-> <<>>, pk_pke |-> <<>>, h |-> <<>>, z |-> <<>>]

\* ---- ntt / invntt ----

\* ntt line 25-29 / invntt lines 44-45: the locals on entry
NttInit ==
    /\ nttCall \in {"test_ntt", "invntt"}
    /\ \E seed \in 0..MaxPolySeed : poly = InputPoly(seed)
    /\ res = poly
    /\ nttPc = IF nttCall = "test_ntt" THEN "ntt" ELSE "invntt"
    /\ level = IF nttCall = "test_ntt" THEN 0 ELSE 6
    /\ start = 0
    /\ k = IF nttCall = "test_ntt" THEN 0 ELSE 127
    \* the other components are not in use
    /\ cbdPc = "idle" /\ eta = 0 /\ buf = <<>> /\ cbdI = 0
    /\ coefficients = <<>>
    /\ codecPc = "idle" /\ codecD = 0 /\ coeff = 0 /\ packed = <<>>
    /\ decompressed = 0
    /\ params = KYBER512 /\ prog = "none" /\ input = NoCall /\ arg = NoCall
    /\ kemPc = "idle" /\ local = NoLocals /\ urandomRead = 0 /\ work = <<>>
    /\ results = <<>>
    /\ skPc = "idle" /\ skParts = NoParts /\ skBytes = <<>> /\ skParsed = NoParts
    /\ decPc = "idle" /\ decC = <<>> /\ decI = 0 /\ decU = <<>> /\ decV = <<>>
    /\ mulPc = "idle" /\ mulA = <<>> /\ mulB = <<>> /\ mulCall = 0 /\ mulI = 0
    /\ mulRes = <<>> /\ mulAB = <<>> /\ mulBA = <<>>

\* One iteration of ntt's `for start` loop (lines 32-38), with the loop
\* headers' advance to the next subrange, the next level, or the return at
\* line 39 (test_ntt then calls invntt on the result, line 22; keygen takes
\* the result as t[i]).
NttStep ==
    /\ nttPc = "ntt"
    /\ UNCHANGED <<cbdVars, codecVars, kemVars, skVars, decVars, mulVars>>
    /\ IF LenL(poly) # 256
       THEN /\ nttPc' = "ValueError"
            /\ UNCHANGED <<nttCall, poly, res, level, start, k>>
       ELSE IF ZetaRaises(k)
       THEN /\ nttPc' = "raised"
            /\ UNCHANGED <<nttCall, poly, res, level, start, k>>
       ELSE LET distance == Pow2(level)
                next == start + 2 * distance
                lastOfLevel == next >= 256
                returns == lastOfLevel /\ level = 6
            IN  /\ res' = NttButterfly(res, start, distance, ZetaAt(k), Q)
                /\ start' = IF lastOfLevel THEN 0 ELSE next
                /\ level' = IF returns /\ nttCall = "test_ntt" THEN 6
                            ELSE IF lastOfLevel THEN level + 1 ELSE level
                /\ k' = IF returns /\ nttCall = "test_ntt" THEN 127 ELSE k + 1
                /\ nttPc' = IF ~returns THEN "ntt"
                             ELSE IF nttCall = "test_ntt" THEN "invntt"
                             ELSE "returned"
                /\ UNCHANGED <<nttCall, poly>>

\* One iteration of invntt's `for start` loop (lines 48-54), with the loop
\* headers' advance and, after the last subrange of level 0, the scaling and
\* the return (lines 57-59).
InvnttStep ==
    /\ nttPc = "invntt"
    /\ UNCHANGED <<cbdVars, codecVars, kemVars, skVars, decVars, mulVars>>
    /\ IF ZetaRaises(k)
       THEN /\ nttPc' = "raised"
            /\ UNCHANGED <<nttCall, poly, res, level, start, k>>
       ELSE LET distance == Pow2(level)
                next == start + 2 * distance
                lastOfLevel == next >= 256
                returns == lastOfLevel /\ level = 0
                r == InvnttButterfly(res, start, distance, ZetaAt(k), Q)
            IN  /\ res' = IF returns THEN InvnttScale(r, Q) ELSE r
                /\ start' = IF lastOfLevel THEN 0 ELSE next
                /\ level' = IF lastOfLevel /\ ~returns THEN level - 1 ELSE level
                /\ k' = k - 1
                /\ nttPc' = IF returns THEN "done" ELSE "invntt"
                /\ UNCHANGED <<nttCall, poly>>

NextNtt == NttStep \/ InvnttStep

SpecNtt == NttInit /\ [][NextNtt]_vars

\* ---- cbd ----

\* A call cbd(eta, buf) with n = 256: a buffer of eta*n/4 bytes, or one
\* byte short of it
CbdInit ==
    /\ cbdPc = "entry"
    /\ eta \in {2, 3}
    /\ \E seed \in 0..MaxBufSeed, short \in {0, 1} :
            buf = InputBuf(seed, ((eta * N) \div 4) - short)
    /\ cbdI = 0
    /\ coefficients = <<>>
    \* the other components are not in use
    /\ nttCall = "none" /\ nttPc = "idle" /\ poly = <<>> /\ res = <<>>
    /\ level = 0 /\ start = 0 /\ k = 0
    /\ codecPc = "idle" /\ codecD = 0 /\ coeff = 0 /\ packed = <<>>
    /\ decompressed = 0
    /\ params = KYBER512 /\ prog = "none" /\ input = NoCall /\ arg = NoCall
    /\ kemPc = "idle" /\ local = NoLocals /\ urandomRead = 0 /\ work = <<>>
    /\ results = <<>>
    /\ skPc = "idle" /\ skParts = NoParts /\ skBytes = <<>> /\ skParsed = NoParts
    /\ decPc = "idle" /\ decC = <<>> /\ decI = 0 /\ decU = <<>> /\ decV = <<>>
    /\ mulPc = "idle" /\ mulA = <<>> /\ mulB = <<>> /\ mulCall = 0 /\ mulI = 0
    /\ mulRes = <<>> /\ mulAB = <<>> /\ mulBA = <<>>

\* The length check (lines 61-62)
CbdEnter ==
    /\ cbdPc = "entry"
    /\ UNCHANGED <<nttVars, codecVars, kemVars, skVars, decVars, mulVars>>
    /\ cbdPc' = IF Len(buf) # (eta * N) \div 4 THEN "ValueError" ELSE "loop"
    /\ UNCHANGED <<eta, buf, cbdI, coefficients>>

\* One iteration of the loop over i (lines 65-68), or the return (line 69)
CbdStep ==
    /\ cbdPc = "loop"
    /\ UNCHANGED <<nttVars, codecVars, kemVars, skVars, decVars, mulVars>>
    /\ IF cbdI >= N
       THEN /\ cbdPc' = "done"
            /\ UNCHANGED <<eta, buf, cbdI, coefficients>>
       ELSE IF CbdRaises(buf, cbdI, eta)
       THEN /\ cbdPc' = "IndexError"
            /\ UNCHANGED <<eta, buf, cbdI, coefficients>>
       ELSE /\ coefficients' = Append(coefficients, CbdCoefficient(buf, cbdI, eta))
            /\ cbdI' = cbdI + 1
            /\ UNCHANGED <<cbdPc, eta, buf>>

NextCbd == CbdEnter \/ CbdStep

SpecCbd == CbdInit /\ [][NextCbd]_vars

\* ---- compress / decompress of one coefficient ----

\* A coefficient in [0, q) and a width
CodecInit ==
    /\ codecPc = "coeff"
    /\ codecD \in CompressionWidths
    /\ coeff \in 0..(Q - 1)
    /\ packed = <<>>
    /\ decompressed = 0
    \* the other components are not in use
    /\ nttCall = "none" /\ nttPc = "idle" /\ poly = <<>> /\ res = <<>>
    /\ level = 0 /\ start = 0 /\ k = 0
    /\ cbdPc = "idle" /\ eta = 0 /\ buf = <<>> /\ cbdI = 0
    /\ coefficients = <<>>
    /\ params = KYBER512 /\ prog = "none" /\ input = NoCall /\ arg = NoCall
    /\ kemPc = "idle" /\ local = NoLocals /\ urandomRead = 0 /\ work = <<>>
    /\ results = <<>>
    /\ skPc = "idle" /\ skParts = NoParts /\ skBytes = <<>> /\ skParsed = NoParts
    /\ decPc = "idle" /\ decC = <<>> /\ decI = 0 /\ decU = <<>> /\ decV = <<>>
    /\ mulPc = "idle" /\ mulA = <<>> /\ mulB = <<>> /\ mulCall = 0 /\ mulI = 0
    /\ mulRes = <<>> /\ mulAB = <<>> /\ mulBA = <<>>

\* compress_ciphertext on the coefficient (lines 195-198, 203-206)
CompressStep ==
    /\ codecPc = "coeff"
    /\ UNCHANGED <<nttVars, cbdVars, kemVars, skVars, decVars, mulVars>>
    /\ packed' = PackCoeff(CompressCoeff(coeff, codecD, Q), codecD)
    /\ codecPc' = "packed"
    /\ UNCHANGED <<codecD, coeff, decompressed>>

\* decompress_ciphertext on its bytes (lines 220-226, 233-239)
DecompressStep ==
    /\ codecPc = "packed"
    /\ UNCHANGED <<nttVars, cbdVars, kemVars, skVars, decVars, mulVars>>
    /\ decompressed' = DecompressCoeff(UnpackCoeff(packed, 0, codecD), codecD, Q)
    /\ codecPc' = "unpacked"
    /\ UNCHANGED <<codecD, coeff, packed>>

NextCodec == CompressStep \/ DecompressStep

SpecCodec == CodecInit /\ [][NextCodec]_vars

\* ---- KyberKEM: keypair, encapsulate, decapsulate ----

NoReturn == [pk |-> <<>>, sk |-> <<>>, c |-> <<>>, K |-> <<>>]

\* The place a call starts at
KemEntry(op) ==
    CASE op = "keypair" -> "keygen"
      [] op = "encapsulate" -> "encaps"
      [] op = "decapsulate" -> "decaps"
      [] OTHER -> "end"

\* The program's first call
FirstCall(pr, inp) ==
    CASE pr = "test_encryption" -> [NoCall EXCEPT !.op = "keypair"]
      [] pr = "decapsulate" -> [NoCall EXCEPT !.op = "decapsulate", !.c = inp.c, !.sk = inp.sk]
      [] OTHER -> [NoCall EXCEPT !.op = "encapsulate", !.pk = inp.pk]

\* The program's call after the finished calls rs: an exception ends the
\* program; test_encryption (tests/test_basic.py lines 16-28) passes pk to
\* encapsulate and then ct and sk to decapsulate
NextCall(pr, inp, rs) ==
    LET n == Len(rs)
    IN  IF rs[n].outcome # "returned" THEN NoCall
        ELSE CASE pr = "test_encryption" /\ n = 1 ->
                    [NoCall EXCEPT !.op = "encapsulate", !.pk = rs[1].ret.pk]
               [] pr = "test_encryption" /\ n = 2 ->
                    [NoCall EXCEPT !.op = "decapsulate", !.c = rs[2].ret.c,
                                   !.sk = rs[1].ret.sk]
               [] pr = "encapsulate" /\ n = 1 -> rs[1].arg
               [] pr = "roundtrip" /\ n \in {1, 2} ->
                    [NoCall EXCEPT !.op = "decapsulate", !.c = rs[1].ret.c,
                                   !.sk = inp.sk]
               [] OTHER -> NoCall

\* The call in progress ends (a return or an exception that nothing
\* catches), and the program goes on to its next call
Finish(outcome, ret, read, steps) ==
    LET rs == Append(results,
                     [arg |-> arg, outcome |-> outcome, ret |-> ret,
                      m |-> local.m, urandomRead |-> read, work |-> steps])
        next == NextCall(prog, input, rs)
    IN  /\ results' = rs
        /\ arg' = next
        /\ kemPc' = KemEntry(next.op)
        /\ local' = NoLocals
        /\ urandomRead' = 0
        /\ work' = <<>>

InputsOf(pr, p) ==
    CASE pr = "test_encryption" -> {NoCall}
      [] pr = "encapsulate" -> {[NoCall EXCEPT !.pk = pk] : pk \in InputPks(p)}
      [] pr = "decapsulate" ->
            {[NoCall EXCEPT !.c = c, !.sk = sk] : c \in InputCts(p), sk \in InputSks(p)}
      [] OTHER -> {[NoCall EXCEPT !.pk = key.pk, !.sk = key.sk] : key \in InputKeys(p)}

KemInit ==
    /\ params \in ParamSets
    /\ prog \in ProgramsOf(params)
    /\ input \in InputsOf(prog, params)
    /\ arg = FirstCall(prog, input)
    /\ kemPc = KemEntry(arg.op)
    /\ local = NoLocals
    /\ urandomRead = 0
    /\ work = <<>>
    /\ results = <<>>
    \* the other components are not in use
    /\ nttCall = "none" /\ nttPc = "idle" /\ poly = <<>> /\ res = <<>>
    /\ level = 0 /\ start = 0 /\ k = 0
    /\ cbdPc = "idle" /\ eta = 0 /\ buf = <<>> /\ cbdI = 0
    /\ coefficients = <<>>
    /\ codecPc = "idle" /\ codecD = 0 /\ coeff = 0 /\ packed = <<>>
    /\ decompressed = 0
    /\ skPc = "idle" /\ skParts = NoParts /\ skBytes = <<>> /\ skParsed = NoParts
    /\ decPc = "idle" /\ decC = <<>> /\ decI = 0 /\ decU = <<>> /\ decV = <<>>
    /\ mulPc = "idle" /\ mulA = <<>> /\ mulB = <<>> /\ mulCall = 0 /\ mulI = 0
    /\ mulRes = <<>> /\ mulAB = <<>> /\ mulBA = <<>>

\* keypair line 18 calls keygen; keygen lines 15-24: rho, A, s, e
KeygenSample ==
    /\ kemPc = "keygen"
    /\ UNCHANGED <<nttVars, cbdVars, codecVars, skVars, decVars, mulVars>>
    /\ \E secret \in 0..MaxSecretSeed, noise \in 0..MaxNoiseSeed :
         LET rho == urandom(secret, urandomRead, 32)
             len == params.eta1 * params.n
             from == urandomRead + 32
         IN  /\ local' = [local EXCEPT
                    !.rho = rho,
                    !.A = generate_matrix_A(rho, params),
                    !.s = [j \in 0..(params.k - 1) |->
                             sample_noise_poly(params.eta1, params.n,
                                               urandom(noise, from + j * len, len))],
                    !.e = [j \in 0..(params.k - 1) |->
                             sample_noise_poly(params.eta1, params.n,
                                               urandom(noise, from + (params.k + j) * len, len))],
                    !.t = [j \in 0..(params.k - 1) |-> PolyZero(params.n)],
                    !.i = 0]
             /\ urandomRead' = from + 2 * params.k * len
    /\ kemPc' = "keygen_row"
    /\ UNCHANGED <<params, prog, input, arg, work, results>>

\* keygen lines 28-32 for row i, up to the call ntt(t[i])
KeygenRowStep ==
    /\ kemPc = "keygen_row"
    /\ UNCHANGED <<cbdVars, codecVars, skVars, decVars, mulVars>>
    /\ LET row == KeygenRow(local.A, local.s, local.e, local.i, params)
       IN  /\ local' = [local EXCEPT !.t[local.i] = row]
           /\ poly' = row
           /\ res' = row
    /\ nttCall' = "keygen"
    /\ nttPc' = "ntt"
    /\ level' = 0
    /\ start' = 0
    /\ k' = 0
    /\ kemPc' = "keygen_ntt"
    /\ UNCHANGED <<params, prog, input, arg, urandomRead, work, results>>

\* ntt(t[i]) has ended. An exception leaves keygen and keypair. Else t[i] is
\* its result (line 32) and the loop goes on; after the last row keygen
\* returns encode_pk(t, rho), encode_sk(s) (lines 35-37) and keypair draws z,
\* hashes pk and returns (pk, sk) (kem.py lines 21-27).
KeygenNttReturn ==
    /\ kemPc = "keygen_ntt"
    /\ nttPc \in {"returned", "raised", "ValueError"}
    /\ UNCHANGED <<cbdVars, codecVars, skVars, decVars, mulVars>>
    /\ nttCall' = "none" /\ nttPc' = "idle" /\ poly' = <<>> /\ res' = <<>>
    /\ level' = 0 /\ start' = 0 /\ k' = 0
    /\ UNCHANGED <<params, prog, input>>
    /\ IF nttPc = "raised"
       THEN Finish("IndexError", NoReturn, urandomRead, work)
       ELSE IF nttPc = "ValueError"
       THEN Finish("ValueError", NoReturn, urandomRead, work)
       ELSE IF local.i + 1 < params.k
       THEN /\ local' = [local EXCEPT !.t[local.i] = res, !.i = local.i + 1]
            /\ kemPc' = "keygen_row"
            /\ UNCHANGED <<arg, urandomRead, work, results>>
       ELSE \E secret \in 0..MaxSecretSeed :
              LET t == [local.t EXCEPT ![local.i] = res]
                  pk_pke == encode_pk(t, local.rho, params)
                  sk_pke == encode_sk(local.s, params)
                  z == urandom(secret, urandomRead, 32)
              IN  Finish("returned",
                         [NoReturn EXCEPT !.pk = pk_pke,
                                          !.sk = AssembleSk(sk_pke, pk_pke, z)],
                         urandomRead + 32, Append(work, "hash_h"))

\* encapsulate lines 35-44, up to the call of encrypt
EncapsDraw ==
    /\ kemPc = "encaps"
    /\ UNCHANGED <<nttVars, cbdVars, codecVars, skVars, decVars, mulVars>>
    /\ \E secret \in 0..MaxSecretSeed :
         LET m == urandom(secret, urandomRead, 32)
             h_pk == hash_h(arg.pk)
             K_r == hash_g(m \o h_pk)
         IN  local' = [local EXCEPT
                  !.m = m, !.h_pk = h_pk,
                  !.K = Slice(K_r, 0, 32), !.r = Slice(K_r, 32, 64),
                  !.enc_pk = arg.pk, !.enc_m = m, !.enc_r = Slice(K_r, 32, 64)]
    /\ urandomRead' = urandomRead + 32
    /\ work' = work \o <<"hash_h", "hash_g", "encrypt">>
    /\ kemPc' = "encrypt"
    /\ UNCHANGED <<params, prog, input, arg, results>>

\* encrypt lines 46-56: t, rho, A, r_poly, e1, e2
EncryptSample ==
    /\ kemPc = "encrypt"
    /\ UNCHANGED <<nttVars, cbdVars, codecVars, skVars, decVars, mulVars>>
    /\ \E noise \in 0..MaxNoiseSeed :
         LET pk == decode_pk(local.enc_pk, params)
             len1 == params.eta1 * params.n
             len2 == params.eta2 * params.n
         IN  /\ local' = [local EXCEPT
                    !.t = pk.t,
                    !.rho = pk.rho,
                    !.A = generate_matrix_A(pk.rho, params),
                    !.r_poly = sample_poly_from_seed(local.enc_r, params.eta1, params.n),
                    !.e1 = [j \in 0..(params.k - 1) |->
                              sample_noise_poly(params.eta1, params.n,
                                                urandom(noise, urandomRead + j * len1, len1))],
                    !.e2 = sample_noise_poly(params.eta2, params.n,
                                             urandom(noise, urandomRead + params.k * len1, len2)),
                    !.u = [j \in 0..(params.k - 1) |-> PolyZero(params.n)],
                    !.i = 0]
             /\ urandomRead' = urandomRead + params.k * len1 + len2
    /\ kemPc' = "encrypt_u"
    /\ UNCHANGED <<params, prog, input, arg, work, results>>

\* encrypt lines 60-63 for row i of u
EncryptUStep ==
    /\ kemPc = "encrypt_u"
    /\ UNCHANGED <<nttVars, cbdVars, codecVars, skVars, decVars, mulVars>>
    /\ local' = [local EXCEPT
            !.u[local.i] = EncryptRow(local.A, local.r_poly, local.e1, local.i, params),
            !.i = local.i + 1]
    /\ kemPc' = IF local.i + 1 < params.k THEN "encrypt_u" ELSE "encrypt_v"
    /\ UNCHANGED <<params, prog, input, arg, urandomRead, work, results>>

\* encrypt lines 66-73: v and the compressed ciphertext, returned to
\* encapsulate (line 44) or decapsulate (line 73)
EncryptVStep ==
    /\ kemPc = "encrypt_v"
    /\ UNCHANGED <<nttVars, cbdVars, codecVars, skVars, decVars, mulVars>>
    /\ LET v == EncryptV(local.t, local.r_poly, local.e2, local.enc_m, params)
           ct == compress_ciphertext(local.u, v, params)
       IN  local' = IF arg.op = "encapsulate"
                    THEN [local EXCEPT !.v = v, !.c = ct]
                    ELSE [local EXCEPT !.v = v, !.c_prime = ct]
    /\ kemPc' = IF arg.op = "encapsulate" THEN "encaps_finish" ELSE "decaps_finish"
    /\ UNCHANGED <<params, prog, input, arg, urandomRead, work, results>>

\* encapsulate lines 47-50
EncapsFinish ==
    /\ kemPc = "encaps_finish"
    /\ UNCHANGED <<nttVars, cbdVars, codecVars, skVars, decVars, mulVars>>
    /\ UNCHANGED <<params, prog, input>>
    /\ LET h_c == hash_h(local.c)
           shared_secret == kdf(local.K \o h_c)
       IN  Finish("returned", [NoReturn EXCEPT !.c = local.c, !.K = shared_secret],
                  urandomRead, work \o <<"hash_h", "kdf">>)

\* decapsulate lines 58-65, up to the call of decrypt
DecapsParse ==
    /\ kemPc = "decaps"
    /\ UNCHANGED <<nttVars, cbdVars, codecVars, skVars, decVars, mulVars>>
    /\ LET parts == ParseSk(arg.sk, params)
       IN  local' = [local EXCEPT !.sk_pke = parts.sk_pke, !.pk_pke = parts.pk_pke,
                                  !.h = parts.h, !.z = parts.z]
    /\ work' = Append(work, "decrypt")
    /\ kemPc' = "decrypt"
    /\ UNCHANGED <<params, prog, input, arg, urandomRead, results>>

\* decrypt lines 82-85: decode_sk, then decompress_ciphertext, which raises
\* IndexError on a c shorter than what it reads
DecryptParse ==
    /\ kemPc = "decrypt"
    /\ UNCHANGED <<nttVars, cbdVars, codecVars, skVars, decVars, mulVars>>
    /\ UNCHANGED <<params, prog, input>>
    /\ IF Len(arg.c) < CiphertextBytesRead(params)
       THEN Finish("IndexError", NoReturn, urandomRead, work)
       ELSE LET uv == decompress_ciphertext(arg.c, params)
            IN  /\ local' = [local EXCEPT !.s = decode_sk(local.sk_pke, params),
                                          !.u = uv.u, !.v = uv.v]
                /\ kemPc' = "decrypt_m"
                /\ UNCHANGED <<arg, urandomRead, work, results>>

\* decrypt lines 88-93: m_poly and the message returned as m_prime
DecryptCompute ==
    /\ kemPc = "decrypt_m"
    /\ UNCHANGED <<nttVars, cbdVars, codecVars, skVars, decVars, mulVars>>
    /\ local' = [local EXCEPT !.m_prime =
            encode_message(DecryptPoly(local.s, local.u, local.v, params.k), params.n)]
    /\ kemPc' = "decaps_hash"
    /\ UNCHANGED <<params, prog, input, arg, urandomRead, work, results>>

\* decapsulate lines 68-73, up to the call of encrypt
DecapsHash ==
    /\ kemPc = "decaps_hash"
    /\ UNCHANGED <<nttVars, cbdVars, codecVars, skVars, decVars, mulVars>>
    /\ LET K_r_prime == hash_g(local.m_prime \o local.h)
       IN  local' = [local EXCEPT
                !.K_prime = Slice(K_r_prime, 0, 32),
                !.r_prime = Slice(K_r_prime, 32, 64),
                !.enc_pk = local.pk_pke, !.enc_m = local.m_prime,
                !.enc_r = Slice(K_r_prime, 32, 64)]
    /\ work' = work \o <<"hash_g", "encrypt">>
    /\ kemPc' = "encrypt"
    /\ UNCHANGED <<params, prog, input, arg, urandomRead, results>>

\* decapsulate lines 76-84
DecapsFinish ==
    /\ kemPc = "decaps_finish"
    /\ UNCHANGED <<nttVars, cbdVars, codecVars, skVars, decVars, mulVars>>
    /\ UNCHANGED <<params, prog, input>>
    /\ LET h_c == hash_h(arg.c)
           shared_secret == IF arg.c = local.c_prime
                            THEN kdf(local.K_prime \o h_c)
                            ELSE kdf(local.z \o h_c)
       IN  Finish("returned", [NoReturn EXCEPT !.K = shared_secret],
                  urandomRead, work \o <<"hash_h", "kdf">>)

NextKem ==
    \/ KeygenSample \/ KeygenRowStep \/ NttStep \/ KeygenNttReturn
    \/ EncapsDraw \/ EncryptSample \/ EncryptUStep \/ EncryptVStep \/ EncapsFinish
    \/ DecapsParse \/ DecryptParse \/ DecryptCompute \/ DecapsHash \/ DecapsFinish

SpecKem == KemInit /\ [][NextKem]_vars

\* ---- the secret key's layout: keypair's assembly, decapsulate's slices ----

\* keypair line 18, after keygen has returned: pk' = encode_pk(t, rho) and
\* sk' = encode_sk(s) (keygen lines 33-37), s a vector sampled by
\* sample_noise_poly, t a vector with coefficients in [0, q)
SkInit ==
    /\ params \in ParamSets
    /\ skPc = "keypair"
    /\ \E noise \in 0..MaxNoiseSeed, seed \in 0..MaxPolySeed, rseed \in 0..MaxBufSeed :
         LET len == params.eta1 * params.n
             s == [j \in 0..(params.k - 1) |->
                     sample_noise_poly(params.eta1, params.n,
                                       urandom(noise, j * len, len))]
             t == [j \in 0..(params.k - 1) |-> InputPoly(seed)]
         IN  skParts = [NoParts EXCEPT !.sk_pke = encode_sk(s, params),
                                       !.pk_pke = encode_pk(t, InputBuf(rseed, 32), params)]
    /\ skBytes = <<>>
    /\ skParsed = NoParts
    \* the other components are not in use
    /\ nttCall = "none" /\ nttPc = "idle" /\ poly = <<>> /\ res = <<>>
    /\ level = 0 /\ start = 0 /\ k = 0
    /\ cbdPc = "idle" /\ eta = 0 /\ buf = <<>> /\ cbdI = 0
    /\ coefficients = <<>>
    /\ codecPc = "idle" /\ codecD = 0 /\ coeff = 0 /\ packed = <<>>
    /\ decompressed = 0
    /\ prog = "none" /\ input = NoCall /\ arg = NoCall
    /\ kemPc = "idle" /\ local = NoLocals /\ urandomRead = 0 /\ work = <<>>
    /\ results = <<>>
    /\ decPc = "idle" /\ decC = <<>> /\ decI = 0 /\ decU = <<>> /\ decV = <<>>
    /\ mulPc = "idle" /\ mulA = <<>> /\ mulB = <<>> /\ mulCall = 0 /\ mulI = 0
    /\ mulRes = <<>> /\ mulAB = <<>> /\ mulBA = <<>>

\* keypair lines 21-27: z, h and sk = sk' || pk' || h || z
KeypairAssemble ==
    /\ skPc = "keypair"
    /\ UNCHANGED <<nttVars, cbdVars, codecVars, kemVars, decVars, mulVars>>
    /\ \E secret \in 0..MaxKeySeed :
         LET z == urandom(secret, 0, 32)
         IN  /\ skParts' = [skParts EXCEPT !.h = hash_h(skParts.pk_pke), !.z = z]
             /\ skBytes' = AssembleSk(skParts.sk_pke, skParts.pk_pke, z)
    /\ skPc' = "built"
    /\ UNCHANGED skParsed

\* decapsulate lines 58-62 on the sk that keypair built
DecapsSlice ==
    /\ skPc = "built"
    /\ UNCHANGED <<nttVars, cbdVars, codecVars, kemVars, decVars, mulVars>>
    /\ skParsed' = ParseSk(skBytes, params)
    /\ skPc' = "parsed"
    /\ UNCHANGED <<skParts, skBytes>>

NextSk == KeypairAssemble \/ DecapsSlice

SpecSk == SkInit /\ [][NextSk]_vars

\* ---- decompress_ciphertext on a whole ciphertext ----

\* The ciphertexts handed to decompress_ciphertext: byte strings of the
\* length (du*k + dv)*n/8, byte strings of the length compress_ciphertext
\* emits, and outputs of compress_ciphertext on coefficients in [0, q)
DecodeInputs(p) ==
    {InputBuf(seed, SpecCtLen(p)) : seed \in 0..MaxBufSeed}
    \cup {InputBuf(seed, CiphertextBytesRead(p)) : seed \in 0..MaxBufSeed}
    \cup {compress_ciphertext(
              [i \in 0..(p.k - 1) |-> InputPoly((seed + i) % (MaxPolySeed + 1))],
              InputPoly(seed), p) : seed \in 0..MaxPolySeed}

\* One pass of the inner loop, lines 219-227 and 232-240: the n coefficients
\* read from c[from..] with params.du or params.dv as d
DecodePoly(c, from, d, p) ==
    [j \in 0..(p.n - 1) |->
        DecompressCoeff(UnpackCoeff(c, from + UnpackWidth(d) * j, d), d, p.q)]

\* decompress_ciphertext lines 213-214: the locals on entry
DecodeInit ==
    /\ params \in ParamSets
    /\ decC \in DecodeInputs(params)
    /\ decPc = "u"
    /\ decI = 0
    /\ decU = <<>>
    /\ decV = <<>>
    \* the other components are not in use
    /\ nttCall = "none" /\ nttPc = "idle" /\ poly = <<>> /\ res = <<>>
    /\ level = 0 /\ start = 0 /\ k = 0
    /\ cbdPc = "idle" /\ eta = 0 /\ buf = <<>> /\ cbdI = 0
    /\ coefficients = <<>>
    /\ codecPc = "idle" /\ codecD = 0 /\ coeff = 0 /\ packed = <<>>
    /\ decompressed = 0
    /\ prog = "none" /\ input = NoCall /\ arg = NoCall
    /\ kemPc = "idle" /\ local = NoLocals /\ urandomRead = 0 /\ work = <<>>
    /\ results = <<>>
    /\ skPc = "idle" /\ skParts = NoParts /\ skBytes = <<>> /\ skParsed = NoParts
    /\ mulPc = "idle" /\ mulA = <<>> /\ mulB = <<>> /\ mulCall = 0 /\ mulI = 0
    /\ mulRes = <<>> /\ mulAB = <<>> /\ mulBA = <<>>

\* Lines 217-228: one polynomial of u; a read past the end of c raises
\* IndexError (lines 221, 224)
DecodeU ==
    /\ decPc = "u"
    /\ UNCHANGED <<nttVars, cbdVars, codecVars, kemVars, skVars, mulVars>>
    /\ LET w == UnpackWidth(params.du)
           from == w * decI * params.n
       IN  IF decI = params.k
           THEN decPc' = "v" /\ UNCHANGED <<decI, decU>>
           ELSE IF Len(decC) < from + w * params.n
                THEN decPc' = "IndexError" /\ UNCHANGED <<decI, decU>>
                ELSE /\ decU' = Append(decU, DecodePoly(decC, from, params.du, params))
                     /\ decI' = decI + 1
                     /\ decPc' = "u"
    /\ UNCHANGED <<decC, decV>>

\* Lines 231-243: v, and the return
DecodeV ==
    /\ decPc = "v"
    /\ UNCHANGED <<nttVars, cbdVars, codecVars, kemVars, skVars, mulVars>>
    /\ LET from == UnpackWidth(params.du) * params.k * params.n
       IN  IF Len(decC) < from + UnpackWidth(params.dv) * params.n
           THEN decPc' = "IndexError" /\ UNCHANGED decV
           ELSE /\ decV' = DecodePoly(decC, from, params.dv, params)
                /\ decPc' = "returned"
    /\ UNCHANGED <<decC, decI, decU>>

NextDecode == DecodeU \/ DecodeV

SpecDecode == DecodeInit /\ [][NextDecode]_vars

\* ---- Polynomial.__mul__: a * b, then b * a ----

\* Polynomial.__init__ (poly.py lines 2-5): the object's fields
Polynomial(coeffs, n, q) == [coeffs |-> coeffs, n |-> n, q |-> q]

\* A polynomial with signed coefficients, as encode_sk / decode_sk carry them
SignedPoly(seed) ==
    [i \in 0..(N - 1) |-> ((seed * i * i + 7 * i + seed) % Q) - (Q \div 2)]

\* The operands: polynomials of the parameter sets' ring with coefficients in
\* [0, q) or signed, and every polynomial of the small ring
MulInputs ==
    {Polynomial(InputPoly(seed), N, Q) : seed \in 0..MaxPolySeed}
    \cup {Polynomial(SignedPoly(seed), N, Q) : seed \in 1..MaxPolySeed}
    \cup {Polynomial(c, SmallN, SmallQ) :
             c \in [0..(SmallN - 1) -> -1..MaxSmallCoeff]}

\* Lines 40-42 for one i, acc being the list res: res[i + j] =
\* (res[i + j] + a[i] * b[j]) % q for every j in range(n)
MulRowOf(acc, a, b, i, n, q) ==
    [t \in 0..(LenL(acc) - 1) |->
        IF i <= t /\ t < i + n THEN (acc[t] + a[i] * b[t - i]) % q ELSE acc[t]]

\* A reduction that adds the higher terms where lines 45-46 subtract them:
\* the product modulo x^n - 1
ReduceHigherCyclic(acc, n, q) ==
    [t \in 0..(LenL(acc) - 1) |->
        IF t < n THEN (acc[t] + acc[t + n]) % q ELSE acc[t]]

\* Lines 45-46, acc being the list res: res[i - n] = (res[i - n] - res[i]) % q
\* for i in range(n, 2n)
ReduceHigher(acc, n, q) ==
    [t \in 0..(LenL(acc) - 1) |->
        IF t < n THEN (acc[t] - acc[t + n]) % q ELSE acc[t]]

\* The program: ab = a * b, then ba = b * a
MulInit ==
    /\ mulA \in MulInputs
    /\ mulB \in MulInputs
    /\ mulPc = "enter"
    /\ mulCall = 1
    /\ mulI = 0
    /\ mulRes = <<>>
    /\ mulAB = <<>>
    /\ mulBA = <<>>
    \* the other components are not in use
    /\ nttCall = "none" /\ nttPc = "idle" /\ poly = <<>> /\ res = <<>>
    /\ level = 0 /\ start = 0 /\ k = 0
    /\ cbdPc = "idle" /\ eta = 0 /\ buf = <<>> /\ cbdI = 0
    /\ coefficients = <<>>
    /\ codecPc = "idle" /\ codecD = 0 /\ coeff = 0 /\ packed = <<>>
    /\ decompressed = 0
    /\ params = KYBER512 /\ prog = "none" /\ input = NoCall /\ arg = NoCall
    /\ kemPc = "idle" /\ local = NoLocals /\ urandomRead = 0 /\ work = <<>>
    /\ results = <<>>
    /\ skPc = "idle" /\ skParts = NoParts /\ skBytes = <<>> /\ skParsed = NoParts
    /\ decPc = "idle" /\ decC = <<>> /\ decI = 0 /\ decU = <<>> /\ decV = <<>>

\* self and other of the call in progress
MulSelf == IF mulCall = 1 THEN mulA ELSE mulB

MulOther == IF mulCall = 1 THEN mulB ELSE mulA

\* Lines 35-39: the check of n and q, and res = [0] * (2 * self.n)
MulEnter ==
    /\ mulPc = "enter"
    /\ UNCHANGED <<nttVars, cbdVars, codecVars, kemVars, skVars, decVars>>
    /\ IF MulSelf.n # MulOther.n \/ MulSelf.q # MulOther.q
       THEN mulPc' = "ValueError" /\ UNCHANGED mulRes
       ELSE /\ mulRes' = [t \in 0..(2 * MulSelf.n - 1) |-> 0]
            /\ mulPc' = "loop"
    /\ UNCHANGED <<mulA, mulB, mulCall, mulI, mulAB, mulBA>>

\* Lines 40-42: one pass of the `for i` loop
MulRow ==
    /\ mulPc = "loop"
    /\ UNCHANGED <<nttVars, cbdVars, codecVars, kemVars, skVars, decVars>>
    /\ mulRes' = MulRowOf(mulRes, MulSelf.coeffs, MulOther.coeffs, mulI,
                          MulSelf.n, MulSelf.q)
    /\ mulI' = mulI + 1
    /\ mulPc' = IF mulI + 1 = MulSelf.n THEN "reduce" ELSE "loop"
    /\ UNCHANGED <<mulA, mulB, mulCall, mulAB, mulBA>>

\* Lines 45-48: the reduction modulo x^n + 1 and the return of res[:n];
\* after a * b the program calls b * a
MulReduce ==
    /\ mulPc = "reduce"
    /\ UNCHANGED <<nttVars, cbdVars, codecVars, kemVars, skVars, decVars>>
    /\ LET reduced == ReduceHigher(mulRes, MulSelf.n, MulSelf.q)
           product == [t \in 0..(Min(MulSelf.n, LenL(reduced)) - 1) |-> reduced[t]]
       IN  /\ mulRes' = reduced
           /\ IF mulCall = 1
              THEN /\ mulAB' = product
                   /\ mulCall' = 2
                   /\ mulPc' = "enter"
                   /\ UNCHANGED mulBA
              ELSE /\ mulBA' = product
                   /\ mulPc' = "done"
                   /\ UNCHANGED <<mulAB, mulCall>>
    /\ mulI' = 0
    /\ UNCHANGED <<mulA, mulB>>

NextMul == MulEnter \/ MulRow \/ MulReduce

SpecMul == MulInit /\ [][NextMul]_vars

\* ------------------------------------------------------------------------
\* Properties

\* C2. NTT round trip: for a polynomial of 256 coefficients in [0, q),
\* ntt(p) completes without raising and invntt(ntt(p)) has the coefficients
\* of p modulo q (test_ntt's assertion).
C2_NttRoundTrip ==
    nttCall = "test_ntt" =>
        /\ nttPc \notin {"raised", "ValueError"}
        /\ nttPc = "done" => \A i \in 0..(N - 1) : (poly[i] - res[i]) % Q = 0

\* C10. Twiddle indices stay inside the table: at every read of ZETAS by
\* ntt and by invntt the index k satisfies 0 <= k <= 127, and both
\* transforms run to completion.
C10_TwiddleIndexInTable ==
    /\ nttPc \in {"ntt", "invntt"} => (0 <= k /\ k <= 127)
    /\ nttPc # "raised"

\* The bits of buf as a stream: bit t is bit t % 8 of byte t // 8
StreamBit(b, t) == Bit(Byte(b, t \div 8), t % 8)

RECURSIVE Popcount(_, _, _)
Popcount(b, from, len) ==
    IF len = 0 THEN 0
    ELSE StreamBit(b, from + len - 1) + Popcount(b, from, len - 1)

\* C8. CBD sampler: for a buffer of exactly eta*n/4 bytes cbd completes
\* without raising and returns n coefficients, the i-th equal to the
\* popcount of the eta bits from bit 2*eta*i minus the popcount of the next
\* eta bits, each in [-eta, eta].
C8_CbdSamples ==
    (cbdPc \notin {"idle", "entry"} /\ Len(buf) = (eta * N) \div 4) =>
        /\ cbdPc \notin {"IndexError", "ValueError"}
        /\ cbdPc = "done" => Len(coefficients) = N
        /\ \A i \in 1..Len(coefficients) :
              /\ coefficients[i] =
                    Popcount(buf, 2 * eta * (i - 1), eta)
                    - Popcount(buf, 2 * eta * (i - 1) + eta, eta)
              /\ coefficients[i] >= -eta /\ coefficients[i] <= eta

\* The centered representative modulo q of x
Centered(x, q) == LET r == x % q IN IF r > q \div 2 THEN r - q ELSE r

Abs(x) == IF x < 0 THEN -x ELSE x

\* ceil(a / b)
CeilDiv(a, b) == (a + b - 1) \div b

\* C7. Compression error bound: for every d in {1, 4, 5, 10, 11} and x in
\* [0, q), the centered representative modulo q of
\* Decompress_d(Compress_d(x)) - x is at most ceil(q / 2^(d+1)) in absolute
\* value.
C7_CompressionErrorBound ==
    codecPc = "unpacked" =>
        Abs(Centered(decompressed - coeff, Q)) <= CeilDiv(Q, Pow2(codecD + 1))

\* C7's case: a coefficient that went through both steps and whose error
\* reaches the bound
C7_Witness ==
    /\ codecPc = "unpacked"
    /\ decompressed # coeff
    /\ Abs(Centered(decompressed - coeff, Q)) = CeilDiv(Q, Pow2(codecD + 1))


CallsOf(op) == {i \in 1..Len(results) : results[i].arg.op = op}

\* C1. KEM round trip: test_encryption's keypair(), encapsulate(pk) and
\* decapsulate(c, sk) all return, whatever os.urandom hands out, and
\* decapsulate returns exactly the K that encapsulate returned.
C1_KemRoundTrip ==
    (prog = "test_encryption" /\ kemPc = "end") =>
        /\ Len(results) = 3
        /\ \A i \in 1..3 : results[i].outcome = "returned"
        /\ results[3].ret.K = results[2].ret.K

\* C3. Implicit rejection is total: decapsulate(c, sk) on any sk and a
\* ciphertext c of the parameter set's ciphertext length raises no error
\* and returns exactly 32 bytes.
C3_DecapsulateTotal ==
    \A i \in CallsOf("decapsulate") :
        Len(results[i].arg.c) = SpecCtLen(params) =>
            /\ results[i].outcome = "returned"
            /\ Len(results[i].ret.K) = 32

\* The call was handed a pk, an sk or a ciphertext whose length is not the
\* parameter set's
WrongSize(call) ==
    \/ call.op = "encapsulate" /\ Len(call.pk) # SpecPkLen(params)
    \/ call.op = "decapsulate" /\ Len(call.sk) # SpecSkLen(params)
    \/ call.op = "decapsulate" /\ Len(call.c) # SpecCtLen(params)

\* C4. Wrong-size inputs are rejected at the boundary: a call of
\* encapsulate or decapsulate with a pk, sk or ciphertext of the wrong
\* length ends in InvalidLength, and no hashing, decryption or encryption
\* step has run before that.
C4_WrongSizeRejected ==
    \A i \in 1..Len(results) :
        WrongSize(results[i].arg) =>
            /\ results[i].outcome = "InvalidLength"
            /\ results[i].work = <<>>

\* C5. Encapsulation is a pure function of (params, pk, m): two calls of
\* encapsulate with the same pk in which os.urandom yields the same m
\* return the same ciphertext c and the same shared secret K.
C5_EncapsulatePure ==
    \A i, j \in CallsOf("encapsulate") :
        (/\ results[i].arg.pk = results[j].arg.pk
         /\ results[i].m = results[j].m
         /\ results[i].outcome = "returned"
         /\ results[j].outcome = "returned") =>
            /\ results[i].ret.c = results[j].ret.c
            /\ results[i].ret.K = results[j].ret.K

\* C6. Decapsulation is deterministic and consumes no randomness: a call
\* of decapsulate reads zero bytes from os.urandom, and two calls with the
\* same c and sk return the same secret.
C6_DecapsulateDeterministic ==
    /\ \A i \in CallsOf("decapsulate") : results[i].urandomRead = 0
    /\ \A i, j \in CallsOf("decapsulate") :
           (/\ results[i].arg.c = results[j].arg.c
            /\ results[i].arg.sk = results[j].arg.sk
            /\ results[i].outcome = "returned"
            /\ results[j].outcome = "returned") =>
               results[i].ret.K = results[j].ret.K

\* The list holds exactly n coefficients, each in [0, q)
RingElement(coeffs, n, q) ==
    /\ LenL(coeffs) = n
    /\ \A j \in 0..(LenL(coeffs) - 1) : 0 <= coeffs[j] /\ coeffs[j] < q

\* C11. Ring-element invariant on ciphertext decoding: for every parameter
\* set and every byte string c of the ciphertext length, outputs of
\* compress_ciphertext on coefficients in [0, q) among them,
\* decompress_ciphertext(c) returns k polynomials u and one polynomial v,
\* each with exactly n = 256 coefficients, every one of them in [0, q).
C11_DecodedRingElements ==
    /\ decPc # "IndexError"
    /\ decPc \in {"v", "returned"} =>
          /\ Len(decU) = params.k
          /\ \A i \in 1..Len(decU) : RingElement(decU[i], params.n, params.q)
    /\ decPc = "returned" => RingElement(decV, params.n, params.q)

\* The term of a[i] in coefficient t of the product modulo X^n + 1: a[i] *
\* b[t - i], and for i > t the term of degree n + t, subtracted
NegacyclicTerm(a, b, t, i, n) ==
    IF i <= t THEN a[i] * b[t - i] ELSE -(a[i] * b[n + t - i])

\* The sum modulo q of the terms of a[lo..hi] in coefficient t
RECURSIVE NegacyclicSum(_, _, _, _, _, _, _)
NegacyclicSum(a, b, t, lo, hi, n, q) ==
    IF lo > hi THEN 0
    ELSE IF lo = hi THEN NegacyclicTerm(a, b, t, lo, n) % q
    ELSE LET mid == (lo + hi) \div 2
         IN  (NegacyclicSum(a, b, t, lo, mid, n, q)
              + NegacyclicSum(a, b, t, mid + 1, hi, n, q)) % q

\* C12. Schoolbook multiplication is the negacyclic product: for two
\* Polynomials a, b with the same n and q and exactly n integer
\* coefficients each, signed ones allowed, a * b returns exactly n
\* coefficients, each in [0, q) and equal to the coefficient of the product
\* of a and b modulo X^n + 1 and modulo q, and a * b = b * a.
C12_SchoolbookNegacyclic ==
    (mulA.n = mulB.n /\ mulA.q = mulB.q) =>
        /\ mulPc # "ValueError"
        /\ mulPc = "done" =>
              /\ RingElement(mulAB, mulA.n, mulA.q)
              /\ \A t \in 0..(mulA.n - 1) :
                    mulAB[t] = NegacyclicSum(mulA.coeffs, mulB.coeffs, t,
                                             0, mulA.n - 1, mulA.n, mulA.q)
              /\ mulAB = mulBA

\* C12's case: both products of two different polynomials of 256
\* coefficients are finished, a has a negative coefficient, and terms of
\* degree >= n were subtracted
C12_Witness ==
    /\ mulPc = "done"
    /\ mulA.n = N /\ mulB.n = N
    /\ mulA # mulB
    /\ \E i \in 0..(N - 1) : mulA.coeffs[i] < 0
    /\ \E t \in N..(2 * N - 1) : mulRes[t] # 0
    /\ \E t \in 0..(N - 1) : mulAB[t] # 0

====
